---- MODULE Spec2Model ----
(***************************************************************************)
(* EuroSec AI desktop client.                                              *)
(*                                                                         *)
(* Two components are modelled:                                            *)
(*   - the Workspace/Session Controller, the React component App           *)
(*     (src/unnamed/part_001) with its chat client sendChat                *)
(*     (src/frontend/src/app/api.ts);                                      *)
(*   - the Backend Supervisor, the Electron main process                   *)
(*     (src/frontend/electron/main.cjs).                                   *)
(*                                                                         *)
(* Encoding of JavaScript values:                                          *)
(*   - a string that the code inspects (paths, the input box, message      *)
(*     texts) is a sequence of chunks; paths and typed input are           *)
(*     sequences of single characters, so that startsWith, slice, trim     *)
(*     and the intent regex are computed character by character;           *)
(*   - "T | null" is the sequence <<>> (null) or <<v>>;                    *)
(*   - an array is a sequence.                                             *)
(* One action is one event-handler run (or the part of an async handler    *)
(* between two awaits) together with the React commit that follows it:     *)
(* the batched state update, the re-render and the effects of lines 63-65  *)
(* and 73-81 of the component.                                             *)
(***************************************************************************)
EXTENDS Integers, Sequences, FiniteSets, TLC

VARIABLES
    \* ---- App component state (part_001:31-70)
    messages,        \* Msg[]                       (useState, line 31)
    input,           \* text of the input box       (line 42)
    busy,            \* boolean                     (line 43)
    err,             \* string | null               (line 44)
    workspaceDirs,   \* string[]                    (line 47)
    preferredFile,   \* string | null               (line 50)
    allowCloud,      \* boolean                     (line 53)
    lastMeta,        \* metadata snapshot | null    (line 68)
    localStorage,    \* key -> stored text | null   (lines 6-24)
    isElectron,      \* window.eurosec is defined   (line 26)
    \* ---- asynchronous parts of the handlers
    pending,         \* fetches issued by sendChat and not yet settled
    fileDlg,         \* a chooseFile call awaiting selectFile(): its workspaceDirs, or null
    autoCleared,     \* whether the auto-clear effect reset preferredFile (line 79) in the
                     \* last commit, and on which change: "no" | "folders" | "file"
    \* ---- Electron main process (main.cjs)
    platform,        \* process.platform
    isPackaged,      \* app.isPackaged                         (line 15)
    binaryFound,     \* resolveBackendBinary() finds a file    (lines 42-57)
    spawnable,       \* the resolved executable can be run
    appState,        \* "launching" | "polling" | "running" | "quitting" | "quit"
    backendProc,     \* ChildProcess | null: index into procs  (line 26)
    procs,           \* every child process spawn() was asked for
    mainWindow,      \* number of open windows, 0 or 1         (line 25)
    activateHooked,  \* the activate listener is registered    (line 247)
    pollPc,          \* position in waitForBackendHealth
    elapsed,         \* Date.now() - start, in ms              (line 194)
    startupLog       \* what the whenReady handler did, in order

uiVars == <<messages, input, busy, err, workspaceDirs, preferredFile, allowCloud,
            lastMeta, localStorage, isElectron, pending, fileDlg, autoCleared>>

supVars == <<platform, isPackaged, binaryFound, spawnable, appState, backendProc,
             procs, mainWindow, activateHooked, pollPc, elapsed, startupLog>>

vars == <<uiVars, supVars>>

-----------------------------------------------------------------------------
(* Bounds of the model *)

\* longest conversation log explored
MaxMsgs == 5

-----------------------------------------------------------------------------
(* JavaScript values *)

Null == <<>>
Some(v) == <<v>>

\* String.prototype.startsWith
StartsWith(s, p) == Len(p) <= Len(s) /\ SubSeq(s, 1, Len(p)) = p

\* Array.prototype.includes
Includes(arr, x) == \E i \in 1..Len(arr) : arr[i] = x

\* faulty variant of the filter: every path under dir goes as well
FilterNe_ByPrefix(arr, dir) == SelectSeq(arr, LAMBDA x : ~StartsWith(x, dir))

\* Array.prototype.filter with the predicate (x) => x !== dir
RECURSIVE FilterNe(_, _)
FilterNe(arr, dir) ==
    IF arr = <<>> THEN <<>>
    ELSE IF Head(arr) # dir THEN <<Head(arr)>> \o FilterNe(Tail(arr), dir)
         ELSE FilterNe(Tail(arr), dir)

\* String.prototype.lastIndexOf, 0-based, -1 when absent
LastIndexOf(s, c) ==
    IF \E i \in 1..Len(s) : s[i] = c
    THEN (CHOOSE i \in 1..Len(s) : s[i] = c /\ \A j \in (i+1)..Len(s) : s[j] # c) - 1
    ELSE -1

\* String.prototype.slice(0, end)
Slice0(s, end) == SubSeq(s, 1, end)

IsSpace(c) == c \in {" ", "\t", "\n"}

\* String.prototype.trim
RECURSIVE TrimStart(_)
TrimStart(s) == IF s # <<>> /\ IsSpace(Head(s)) THEN TrimStart(Tail(s)) ELSE s

RECURSIVE TrimEnd(_)
TrimEnd(s) ==
    IF s # <<>> /\ IsSpace(s[Len(s)]) THEN TrimEnd(SubSeq(s, 1, Len(s) - 1)) ELSE s

Trim(s) == TrimEnd(TrimStart(s))

UpperCase == <<"A","B","C","D","E","F","G","H","I","J","K","L","M",
               "N","O","P","Q","R","S","T","U","V","W","X","Y","Z">>
LowerCase == <<"a","b","c","d","e","f","g","h","i","j","k","l","m",
               "n","o","p","q","r","s","t","u","v","w","x","y","z">>

ToLower(c) ==
    IF \E i \in 1..Len(UpperCase) : UpperCase[i] = c
    THEN LowerCase[CHOOSE i \in 1..Len(UpperCase) : UpperCase[i] = c]
    ELSE c

\* the alternatives of the regex of onSend (part_001:168)
Keywords == { <<"s","u","m","m","a","r","i","z","e">>,
              <<"s","u","m","m","a","r","y">>,
              <<"r","e","w","r","i","t","e">>,
              <<"i","m","p","r","o","v","e">>,
              <<"t","a","i","l","o","r">>,
              <<"b","u","l","l","e","t">> }

\* RegExp.prototype.test of an alternation of literals with the i flag:
\* some alternative occurs somewhere in the text, letter case ignored
MatchesAt(text, i, kw) ==
    /\ i + Len(kw) - 1 <= Len(text)
    /\ \A k \in 1..Len(kw) : ToLower(text[i + k - 1]) = kw[k]

\* faulty variant of the test: the i flag is missing
LooksFileIntent_CaseSensitive(text) ==
    \E kw \in Keywords : \E i \in 1..Len(text) :
        /\ i + Len(kw) - 1 <= Len(text)
        /\ \A k \in 1..Len(kw) : text[i + k - 1] = kw[k]

LooksFileIntent(text) ==
    \E kw \in Keywords : \E i \in 1..Len(text) : MatchesAt(text, i, kw)

-----------------------------------------------------------------------------
(* Texts of the fixed messages *)

GreetingText == <<"Hi! I'm EuroSec AI. 1) Choose workspace folder(s) 2) (Optional) Choose a file 3) Try: Summarize this file">>
ChatClearedText == <<"Chat cleared. Choose a workspace and optionally a file. Try: Summarize this file">>
PermissionsClearedText == <<"Permissions cleared. Please choose workspace folders again.">>
GuidanceText == <<"Please choose at least one workspace folder first. Then (optional) choose a file and ask again.">>
FallbackText == <<"Sorry - I couldn't reach the backend. Check if it is running on http://127.0.0.1:48155 (try /health or /docs).">>

UserMsg(text) == [role |-> "user", text |-> text]
AssistantMsg(text) == [role |-> "assistant", text |-> text]

-----------------------------------------------------------------------------
(* Persistence: LS, loadJson, saveJson (part_001:6-24) *)

LS == [workspaceDirs |-> "eurosec.workspaceDirs",
       preferredFile |-> "eurosec.preferredFile",
       allowCloud    |-> "eurosec.allowCloud"]

LSKeys == {LS.workspaceDirs, LS.preferredFile, LS.allowCloud}

Quote == "\""

\* JSON.stringify of a string (the paths explored need no escape sequence)
StringifyString(s) == <<Quote>> \o s \o <<Quote>>

\* JSON.stringify of a string[]
RECURSIVE StringifyElems(_)
StringifyElems(arr) ==
    IF arr = <<>> THEN <<>>
    ELSE IF Len(arr) = 1 THEN StringifyString(arr[1])
    ELSE StringifyString(arr[1]) \o <<",">> \o StringifyElems(Tail(arr))

StringifyList(arr) == <<"[">> \o StringifyElems(arr) \o <<"]">>

\* JSON.stringify of a string | null
StringifyNullable(v) == IF v = Null THEN <<"n","u","l","l">> ELSE StringifyString(v[1])

\* JSON.stringify of a boolean
StringifyBool(b) == IF b THEN <<"t","r","u","e">> ELSE <<"f","a","l","s","e">>

\* JSON.parse results: ok = FALSE stands for the SyntaxError it throws
ParseError == [ok |-> FALSE, val |-> <<>>]
Parsed(v) == [ok |-> TRUE, val |-> v]

\* index of the first Quote of s at or after position i, 0 when there is none
NextQuote(s, i) ==
    IF \E j \in i..Len(s) : s[j] = Quote
    THEN CHOOSE j \in i..Len(s) : s[j] = Quote /\ \A k \in i..(j-1) : s[k] # Quote
    ELSE 0

\* JSON.parse of a text expected to hold a string
ParseString(raw) ==
    IF Len(raw) >= 2 /\ raw[1] = Quote /\ NextQuote(raw, 2) = Len(raw)
    THEN Parsed(SubSeq(raw, 2, Len(raw) - 1))
    ELSE ParseError

\* the elements of a JSON array of strings, from position i on, up to the closing bracket
RECURSIVE ParseElems(_, _, _)
ParseElems(raw, i, acc) ==
    IF i > Len(raw) \/ raw[i] # Quote THEN ParseError
    ELSE LET j == NextQuote(raw, i + 1) IN
         IF j = 0 \/ j = Len(raw) THEN ParseError
         ELSE LET acc2 == Append(acc, SubSeq(raw, i + 1, j - 1)) IN
              IF raw[j + 1] = "]" /\ j + 1 = Len(raw) THEN Parsed(acc2)
              ELSE IF raw[j + 1] = "," THEN ParseElems(raw, j + 2, acc2)
              ELSE ParseError

\* JSON.parse of a text expected to hold a string[]
ParseList(raw) ==
    IF raw = <<"[", "]">> THEN Parsed(<<>>)
    ELSE IF Len(raw) >= 2 /\ raw[1] = "[" THEN ParseElems(raw, 2, <<>>)
    ELSE ParseError

\* JSON.parse of a text expected to hold a string | null
ParseNullable(raw) ==
    IF raw = <<"n","u","l","l">> THEN Parsed(Null)
    ELSE LET r == ParseString(raw) IN IF r.ok THEN Parsed(Some(r.val)) ELSE ParseError

\* JSON.parse of a text expected to hold a boolean
ParseBool(raw) ==
    IF raw = <<"t","r","u","e">> THEN Parsed(TRUE)
    ELSE IF raw = <<"f","a","l","s","e">> THEN Parsed(FALSE)
    ELSE ParseError

\* loadJson (part_001:12-20): stored is the item or Null; parsed is JSON.parse of it
LoadJson(stored, parsed, fallback) ==
    IF stored = Null \/ stored[1] = <<>> THEN fallback
    ELSE IF parsed.ok THEN parsed.val
    ELSE fallback

LoadWorkspaceDirs(store) ==
    LET it == store[LS.workspaceDirs] IN
    LoadJson(it, IF it = Null THEN ParseError ELSE ParseList(it[1]), <<>>)

LoadPreferredFile(store) ==
    LET it == store[LS.preferredFile] IN
    LoadJson(it, IF it = Null THEN ParseError ELSE ParseNullable(it[1]), Null)

LoadAllowCloud(store) ==
    LET it == store[LS.allowCloud] IN
    LoadJson(it, IF it = Null THEN ParseError ELSE ParseBool(it[1]), FALSE)

\* faulty variant of saveJson: every value goes under the key of the folders
SaveJson_OneKey(store, key, text) == [store EXCEPT ![LS.workspaceDirs] = Some(text)]

\* saveJson (part_001:22-24)
SaveJson(store, key, text) == [store EXCEPT ![key] = Some(text)]

-----------------------------------------------------------------------------
(* Effects of the component *)

\* faulty variant of the effect: a file is kept when it equals no folder
AutoClear_ByEquality(dirs, pf) ==
    IF pf = Null \/ pf[1] = <<>> THEN pf
    ELSE IF Len(dirs) = 0 THEN pf
    ELSE IF \E i \in 1..Len(dirs) : ~(pf[1] = dirs[i]) THEN pf
    ELSE Null

\* faulty variant of the auto-clear effect: the file is kept whenever it
\* has a slash, whatever the folders are
AutoClear_KeepsPaths(dirs, pf) ==
    IF pf = Null \/ pf[1] = <<>> THEN pf
    ELSE IF Len(dirs) = 0 THEN pf
    ELSE IF Includes(pf[1], "/") THEN pf
    ELSE Null

\* the auto-clear effect (part_001:73-81): the preferred file after it ran
AutoClear(dirs, pf) ==
    IF pf = Null \/ pf[1] = <<>> THEN pf
    ELSE IF Len(dirs) = 0 THEN pf
    ELSE IF \E i \in 1..Len(dirs) : StartsWith(pf[1], dirs[i]) THEN pf
    ELSE Null

\* faulty variant of the payload: the preferred file is never sent
PreferredFilesPayload_Never(pf) == <<>>

\* useMemo of part_001:57-60
PreferredFilesPayload(pf) == IF pf # Null /\ pf[1] # <<>> THEN <<pf[1]>> ELSE <<>>

\* The commit that follows a handler which set the session state to
\* (dirs, pf, cloud): an effect runs when one of its dependencies changed
\* (part_001:63-65, 81); the auto-clear effect may set the preferred file once
\* more, which is rendered and saved in turn.
CommitSession(dirs, pf, cloud) ==
    LET pf2 == IF dirs # workspaceDirs \/ pf # preferredFile
               THEN AutoClear(dirs, pf) ELSE pf
        s1 == IF dirs # workspaceDirs
              THEN SaveJson(localStorage, LS.workspaceDirs, StringifyList(dirs))
              ELSE localStorage
        s2 == IF pf # preferredFile
              THEN SaveJson(s1, LS.preferredFile, StringifyNullable(pf))
              ELSE s1
        s3 == IF cloud # allowCloud
              THEN SaveJson(s2, LS.allowCloud, StringifyBool(cloud))
              ELSE s2
        s4 == IF pf2 # pf
              THEN SaveJson(s3, LS.preferredFile, StringifyNullable(pf2))
              ELSE s3
    IN  /\ workspaceDirs' = dirs
        /\ preferredFile' = pf2
        /\ allowCloud' = cloud
        /\ localStorage' = s4
        /\ autoCleared' = IF pf2 = pf THEN "no"
                          ELSE IF dirs # workspaceDirs THEN "folders" ELSE "file"

\* a commit in which no session state changed: no effect runs
NoSessionChange ==
    /\ UNCHANGED <<workspaceDirs, preferredFile, allowCloud, localStorage>>
    /\ autoCleared' = "no"

\* The first render of App on a given storage (part_001:31-81): the state
\* initializers read the storage, then every effect runs once.
Mount(store) ==
    LET dirs == LoadWorkspaceDirs(store)
        pf == LoadPreferredFile(store)
        cloud == LoadAllowCloud(store)
        pf2 == AutoClear(dirs, pf)
        s1 == SaveJson(store, LS.workspaceDirs, StringifyList(dirs))
        s2 == SaveJson(s1, LS.preferredFile, StringifyNullable(pf))
        s3 == SaveJson(s2, LS.allowCloud, StringifyBool(cloud))
        s4 == IF pf2 # pf
              THEN SaveJson(s3, LS.preferredFile, StringifyNullable(pf2))
              ELSE s3
    IN  [messages      |-> <<AssistantMsg(GreetingText)>>,
         input         |-> <<>>,
         busy          |-> FALSE,
         err           |-> Null,
         workspaceDirs |-> dirs,
         preferredFile |-> pf2,
         allowCloud    |-> cloud,
         lastMeta      |-> Null,
         localStorage  |-> s4,
         autoCleared   |-> IF pf2 = pf THEN "no" ELSE "file"]

\* the storage of a first launch: no key is set
EmptyStorage == [k \in LSKeys |-> Null]

-----------------------------------------------------------------------------
(* The chat client: sendChat (api.ts:13-41) *)

\* the JSON body of the POST (api.ts:22-27)
ChatRequest(user_text, allow_cloud, workspace_dirs, preferred_files) ==
    [user_text       |-> user_text,
     allow_cloud     |-> allow_cloud,
     workspace_dirs  |-> workspace_dirs,
     preferred_files |-> preferred_files]

\* What fetch can settle with.  rejected: the promise rejects (no connection).
\* Otherwise an HTTP response: its status, its body as text, and what
\* res.json() makes of the body: json = "object" with the keys present and
\* their values, json = "other" for a value that is no object (null, a
\* number, a string), json = "syntax" when the body is no JSON at all.
HttpResponse(status, text, json, keys, obj) ==
    [rejected |-> FALSE, status |-> status, text |-> text,
     json |-> json, keys |-> keys, obj |-> obj]

NoObj == [final_text |-> <<>>, route |-> "", used_cloud |-> FALSE,
          sensitive_detected |-> FALSE, sanitized_cloud_query |-> Null]

ConnectionRefused ==
    [rejected |-> TRUE, status |-> 0, text |-> "Failed to fetch",
     json |-> "syntax", keys |-> {}, obj |-> NoObj]

ChatKeys == {"final_text", "used_cloud", "sensitive_detected",
             "sanitized_cloud_query", "extracted_public_terms", "evidence", "route"}

\* the answer of the spec's example: final_text "ok", route "local"
LocalAnswer ==
    HttpResponse(200, "", "object", ChatKeys,
        [final_text |-> <<"o","k">>, route |-> "local", used_cloud |-> FALSE,
         sensitive_detected |-> FALSE, sanitized_cloud_query |-> Null])

CloudAnswer ==
    HttpResponse(201, "", "object", ChatKeys,
        [final_text |-> <<"d","o","n","e">>, route |-> "cloud", used_cloud |-> TRUE,
         sensitive_detected |-> TRUE, sanitized_cloud_query |-> Some(<<"q">>)])

ServerError == HttpResponse(500, "boom", "syntax", {}, NoObj)
NullBody == HttpResponse(200, "null", "other", {}, NoObj)
NoFinalText == HttpResponse(200, "", "object", ChatKeys \ {"final_text"}, NoObj)
NotJson == HttpResponse(200, "<html>", "syntax", {}, NoObj)

Responses == {ConnectionRefused, LocalAnswer, CloudAnswer, ServerError, NullBody,
              NoFinalText, NotJson}

\* Response.ok
ResOk(res) == res.status >= 200 /\ res.status < 300

\* results of sendChat: the ChatResponse it returns, or the message of the Error it throws
Returned(data) == [threw |-> FALSE, message |-> "", data |-> data]
Thrown(message) == [threw |-> TRUE, message |-> message, data |-> NoObj]

\* faulty variant of sendChat: the status of the response is not looked at
SendChat_IgnoringStatus(res) ==
    IF res.rejected THEN Thrown(res.text)
    ELSE IF res.json = "syntax" THEN Thrown("Unexpected token in JSON")
    ELSE IF res.json # "object" \/ "final_text" \notin res.keys
         THEN Thrown("Invalid response from backend")
    ELSE Returned(res.obj)

\* sendChat from the point where fetch settles (api.ts:19-40)
SendChat(res) ==
    IF res.rejected THEN Thrown(res.text)
    ELSE IF ~ResOk(res)
         THEN Thrown("Backend error " \o ToString(res.status) \o ": " \o res.text)
    ELSE IF res.json = "syntax" THEN Thrown("Unexpected token in JSON")
    ELSE IF res.json # "object" \/ "final_text" \notin res.keys
         THEN Thrown("Invalid response from backend")
    ELSE Returned(res.obj)

\* the snapshot of part_001:195-200
MetaOf(resp) ==
    [route |-> resp.route, used_cloud |-> resp.used_cloud,
     sensitive_detected |-> resp.sensitive_detected,
     sanitized_cloud_query |-> resp.sanitized_cloud_query]

-----------------------------------------------------------------------------
(* Inputs explored *)

PathA == <<"/","a">>
PathAB == <<"/","a","b">>
PathB == <<"/","b">>
Folders == {PathA, PathAB, PathB}

FileA == <<"/","a","/","d">>
FileB == <<"/","b","/","d">>
FileRoot == <<"/","d">>
FileBare == <<"d">>
Files == {FileA, FileB, FileRoot, FileBare}

InHi == <<" ","h","i"," ">>
InTailor == <<"T","a","i","l","o","r">>
InBlank == <<" ">>
Inputs == {<<>>, InHi, InTailor, InBlank}

RemoveAt(seq, i) == SubSeq(seq, 1, i - 1) \o SubSeq(seq, i + 1, Len(seq))

-----------------------------------------------------------------------------
(* Handlers of the component *)

chatVars == <<messages, input, busy, err, lastMeta, pending>>

\* onChange of the input box (part_001:403)
SetInput(text) ==
    /\ input' = text
    /\ NoSessionChange
    /\ UNCHANGED <<messages, busy, err, lastMeta, pending, isElectron, fileDlg>>
    /\ UNCHANGED supVars

\* faulty variant of the guard: the busy flag is not consulted
SendAccepted_IgnoringBusy(text, isBusy) == ~(Trim(text) = <<>>)

\* the guard of onSend (part_001:159) lets the call through
SendAccepted(text, isBusy) == ~(Trim(text) = <<>> \/ isBusy)

\* onSend up to its await (part_001:158-193).  The handler is taken as
\* callable at any time: the disabled attribute of the button and of the
\* input box (lines 414, 418) is not relied on.
OnSend ==
    /\ IF ~SendAccepted(input, busy)
       THEN UNCHANGED <<chatVars, isElectron, fileDlg>>
       ELSE LET userText == Trim(input)
                log == Append(messages, UserMsg(userText))
            IN  /\ Len(messages) + Len(pending) + 2 <= MaxMsgs
                /\ err' = Null
                /\ input' = <<>>
                /\ IF LooksFileIntent(userText) /\ Len(workspaceDirs) = 0
                   THEN /\ messages' = Append(log, AssistantMsg(GuidanceText))
                        /\ UNCHANGED <<busy, pending>>
                   ELSE /\ messages' = log
                        /\ busy' = TRUE
                        /\ pending' = Append(pending,
                               ChatRequest(userText, allowCloud, workspaceDirs,
                                           PreferredFilesPayload(preferredFile)))
                /\ UNCHANGED <<lastMeta, isElectron, fileDlg>>
    /\ NoSessionChange
    /\ UNCHANGED supVars

\* faulty variant: busy is released on the success path only
BusyAfterSettle_OnlyOnSuccess(r) == r.threw

\* the busy flag after the try statement of onSend, r being what sendChat
\* returned or threw: the finally block (part_001:216-218)
BusyAfterSettle(r) == FALSE

\* faulty variant: after a failed exchange the request is issued again
OnSendSettled_Reissues(i, res) ==
    /\ i \in 1..Len(pending)
    /\ Len(messages) < MaxMsgs + 2
    /\ LET r == SendChat(res) IN
       IF ~r.threw
       THEN /\ lastMeta' = Some(MetaOf(r.data))
            /\ messages' = Append(messages, AssistantMsg(r.data.final_text))
            /\ pending' = RemoveAt(pending, i)
            /\ UNCHANGED err
       ELSE /\ err' = Some(r.message)
            /\ messages' = Append(messages, AssistantMsg(FallbackText))
            /\ UNCHANGED <<lastMeta, pending>>
    /\ busy' = BusyAfterSettle(SendChat(res))
    /\ NoSessionChange
    /\ UNCHANGED <<input, isElectron, fileDlg>>
    /\ UNCHANGED supVars

\* onSend from the point where the fetch of pending[i] settles with res
\* (part_001:193-218)
OnSendSettled(i, res) ==
    /\ i \in 1..Len(pending)
    /\ LET r == SendChat(res) IN
       IF ~r.threw
       THEN /\ lastMeta' = Some(MetaOf(r.data))
            /\ messages' = Append(messages, AssistantMsg(r.data.final_text))
            /\ UNCHANGED err
       ELSE /\ err' = Some(r.message)
            /\ messages' = Append(messages, AssistantMsg(FallbackText))
            /\ UNCHANGED lastMeta
    /\ busy' = BusyAfterSettle(SendChat(res))
    /\ pending' = RemoveAt(pending, i)
    /\ NoSessionChange
    /\ UNCHANGED <<input, isElectron, fileDlg>>
    /\ UNCHANGED supVars

\* faulty variant of the updater: a new folder is put in front
AddDir_Prepends(prev, dir) == IF Includes(prev, dir) THEN prev ELSE <<dir>> \o prev

\* the updater of part_001:91-94 and 123
AddDir(prev, dir) == IF Includes(prev, dir) THEN prev ELSE Append(prev, dir)

\* chooseWorkspace from the point where selectFolder() resolved with dir
\* (part_001:83-95); dir = Null is a cancelled dialog
ChooseWorkspace(dir) ==
    /\ IF ~isElectron
       THEN NoSessionChange
       ELSE IF dir = Null \/ dir[1] = <<>>
       THEN NoSessionChange
       ELSE CommitSession(AddDir(workspaceDirs, dir[1]), preferredFile, allowCloud)
    /\ UNCHANGED <<chatVars, isElectron, fileDlg>>
    /\ UNCHANGED supVars

\* chooseFile up to its await (part_001:97-102): the rest of the handler
\* runs with the workspaceDirs of the render in which it was called.  One
\* call awaits its dialog at a time.
ChooseFileOpen ==
    /\ IF ~isElectron
       THEN UNCHANGED fileDlg
       ELSE /\ fileDlg = Null
            /\ fileDlg' = Some(workspaceDirs)
    /\ NoSessionChange
    /\ UNCHANGED <<chatVars, isElectron>>
    /\ UNCHANGED supVars

\* the folder of part_001:106, null when the path has no slash
FolderOf(file) ==
    IF Includes(file, "/") THEN Some(Slice0(file, LastIndexOf(file, "/"))) ELSE Null

\* chooseFile from the point where selectFile() resolved with file
\* (part_001:103-128); ok is the answer to confirm(), when it is asked
ChooseFileResolved(file, ok) ==
    /\ fileDlg # Null
    /\ fileDlg' = Null
    /\ IF file = Null \/ file[1] = <<>>
       THEN NoSessionChange
       ELSE LET seen == fileDlg[1]
                folder == FolderOf(file[1])
                asks == /\ folder # Null
                        /\ folder[1] # <<>>
                        /\ ~\E k \in 1..Len(seen) : StartsWith(folder[1], seen[k])
                dirs == IF asks /\ ok
                        THEN IF Len(seen) = 0 THEN <<folder[1]>>
                             ELSE AddDir(workspaceDirs, folder[1])
                        ELSE workspaceDirs
            IN  CommitSession(dirs, file, allowCloud)
    /\ UNCHANGED <<chatVars, isElectron>>
    /\ UNCHANGED supVars

\* removeWorkspace (part_001:130-132)
RemoveWorkspace(dir) ==
    /\ CommitSession(FilterNe(workspaceDirs, dir), preferredFile, allowCloud)
    /\ UNCHANGED <<chatVars, isElectron, fileDlg>>
    /\ UNCHANGED supVars

\* onChange of the cloud checkbox (part_001:277)
SetAllowCloud(checked) ==
    /\ CommitSession(workspaceDirs, preferredFile, checked)
    /\ UNCHANGED <<chatVars, isElectron, fileDlg>>
    /\ UNCHANGED supVars

\* faulty variant of clearPermissions: the cloud-allow flag is kept
ClearPermissions_KeepsCloud ==
    /\ Len(messages) + Len(pending) + 1 <= MaxMsgs
    /\ CommitSession(<<>>, Null, allowCloud)
    /\ lastMeta' = Null
    /\ messages' = Append(messages, AssistantMsg(PermissionsClearedText))
    /\ UNCHANGED <<input, busy, err, pending, isElectron, fileDlg>>
    /\ UNCHANGED supVars

\* clearPermissions (part_001:134-144)
ClearPermissions ==
    /\ Len(messages) + Len(pending) + 1 <= MaxMsgs
    /\ CommitSession(<<>>, Null, FALSE)
    /\ lastMeta' = Null
    /\ messages' = Append(messages, AssistantMsg(PermissionsClearedText))
    /\ UNCHANGED <<input, busy, err, pending, isElectron, fileDlg>>
    /\ UNCHANGED supVars

\* faulty variant of clearChat: the metadata snapshot is kept
ClearChat_KeepsMeta ==
    /\ messages' = <<AssistantMsg(ChatClearedText)>>
    /\ err' = Null
    /\ UNCHANGED lastMeta
    /\ NoSessionChange
    /\ UNCHANGED <<input, busy, pending, isElectron, fileDlg>>
    /\ UNCHANGED supVars

\* clearChat (part_001:146-156)
ClearChat ==
    /\ messages' = <<AssistantMsg(ChatClearedText)>>
    /\ err' = Null
    /\ lastMeta' = Null
    /\ NoSessionChange
    /\ UNCHANGED <<input, busy, pending, isElectron, fileDlg>>
    /\ UNCHANGED supVars

\* the page is loaded on the storage as it is (loadURL / loadFile of
\* main.cjs:216-226, then the first render of part_001:29-81): fetches and
\* dialogs of an earlier page are lost
LoadPage ==
    \E m \in {Mount(localStorage)} :
    /\ messages' = m.messages
    /\ input' = m.input
    /\ busy' = m.busy
    /\ err' = m.err
    /\ workspaceDirs' = m.workspaceDirs
    /\ preferredFile' = m.preferredFile
    /\ allowCloud' = m.allowCloud
    /\ lastMeta' = m.lastMeta
    /\ localStorage' = m.localStorage
    /\ autoCleared' = m.autoCleared
    /\ pending' = <<>>
    /\ fileDlg' = Null
    /\ UNCHANGED isElectron

-----------------------------------------------------------------------------
(* The Backend Supervisor (main.cjs) *)

Platforms == {"darwin", "win32", "linux"}

\* defaults of waitForBackendHealth (main.cjs:192) and the socket timeout of httpGet (188)
timeoutMs == 20000
intervalMs == 250
requestTimeoutMs == 1000

\* how long one httpGet may take before it settles
RequestDurations == {0, intervalMs, requestTimeoutMs}

LivePids == {p \in 1..Len(procs) : procs[p].state = "alive"}

\* faulty variant of startBackend: the branch of the packaged binary does
\* not return, so the interpreter is spawned as well and takes the handle
StartBackend_FallsThrough ==
    IF backendProc # Null
    THEN UNCHANGED <<backendProc, procs>>
    ELSE LET child(via) == [state     |-> IF spawnable THEN "alive" ELSE "failed",
                            via       |-> via,
                            listening |-> FALSE,
                            signals   |-> 0]
         IN  IF isPackaged /\ binaryFound
             THEN /\ procs' = procs \o <<child("binary"), child("python")>>
                  /\ backendProc' = Some(Len(procs) + 2)
             ELSE /\ procs' = Append(procs, child("python"))
                  /\ backendProc' = Some(Len(procs) + 1)

\* startBackend (main.cjs:87-159): spawn() hands back a ChildProcess also
\* when the executable cannot be run; such a child emits "error" and never
\* "exit"
StartBackend ==
    IF backendProc # Null
    THEN UNCHANGED <<backendProc, procs>>
    ELSE /\ procs' = Append(procs,
                [state     |-> IF spawnable THEN "alive" ELSE "failed",
                 via       |-> IF isPackaged /\ binaryFound THEN "binary" ELSE "python",
                 listening |-> FALSE,
                 signals   |-> 0])
         /\ backendProc' = Some(Len(procs) + 1)

\* faulty variant of stopBackend: the handle is kept after the signal
StopBackend_KeepsHandle ==
    IF backendProc = Null
    THEN UNCHANGED <<backendProc, procs>>
    ELSE /\ procs' = [procs EXCEPT ![backendProc[1]].signals =
                         IF platform = "win32" \/ procs[backendProc[1]].state # "failed"
                         THEN @ + 1 ELSE @]
         /\ UNCHANGED backendProc

\* faulty variant of stopBackend: the handle is dropped and nothing is sent
StopBackend_ClearsOnly ==
    IF backendProc = Null
    THEN UNCHANGED <<backendProc, procs>>
    ELSE /\ backendProc' = Null
         /\ UNCHANGED procs

\* stopBackend (main.cjs:161-177): taskkill on win32, SIGTERM elsewhere;
\* kill() of a child that was never launched sends nothing
StopBackend ==
    IF backendProc = Null
    THEN UNCHANGED <<backendProc, procs>>
    ELSE LET p == backendProc[1] IN
         /\ procs' = [procs EXCEPT ![p].signals =
                         IF platform = "win32" \/ procs[p].state # "failed"
                         THEN @ + 1 ELSE @]
         /\ backendProc' = Null

\* createWindow (main.cjs:205-231): the window is made and the page loaded in it
CreateWindow ==
    /\ mainWindow' = 1
    /\ LoadPage

\* app.whenReady handler up to its await (main.cjs:233-237)
WhenReady ==
    /\ appState = "launching"
    /\ StartBackend
    /\ appState' = "polling"
    /\ pollPc' = "loop"
    /\ elapsed' = 0
    /\ startupLog' = Append(startupLog, "startBackend")
    /\ UNCHANGED <<platform, isPackaged, binaryFound, spawnable, mainWindow, activateHooked>>
    /\ UNCHANGED uiVars

\* faulty variant of the loop: the start of the clock is taken anew at
\* every turn, so the time spent never adds up
PollLoop_ClockRestarts ==
    /\ appState = "polling" /\ pollPc = "loop"
    /\ pollPc' = "request"
    /\ elapsed' = 0
    /\ UNCHANGED <<platform, isPackaged, binaryFound, spawnable, appState, backendProc,
                   procs, mainWindow, activateHooked, startupLog>>
    /\ UNCHANGED uiVars

\* waitForBackendHealth, the loop condition (main.cjs:194, 202)
PollLoop ==
    /\ appState = "polling" /\ pollPc = "loop"
    /\ IF elapsed < timeoutMs
       THEN /\ pollPc' = "request"
            /\ UNCHANGED startupLog
       ELSE /\ pollPc' = "timedOut"
            /\ startupLog' = Append(startupLog, "health:false")
    /\ UNCHANGED <<platform, isPackaged, binaryFound, spawnable, appState, backendProc,
                   procs, mainWindow, activateHooked, elapsed>>
    /\ UNCHANGED uiVars

\* httpGet settles after d ms (main.cjs:179-190, 196-199): resolved on a
\* 2xx answer, which takes a live backend that listens; rejected otherwise
PollAnswer(d, twoXX) ==
    /\ appState = "polling" /\ pollPc = "request"
    /\ twoXX => \E p \in LivePids : procs[p].listening
    /\ elapsed' = elapsed + d
    /\ IF twoXX
       THEN /\ pollPc' = "ready"
            /\ startupLog' = Append(startupLog, "health:true")
       ELSE /\ pollPc' = "sleep"
            /\ UNCHANGED startupLog
    /\ UNCHANGED <<platform, isPackaged, binaryFound, spawnable, appState, backendProc,
                   procs, mainWindow, activateHooked>>
    /\ UNCHANGED uiVars

\* the setTimeout of the catch branch fires (main.cjs:199)
PollSleep ==
    /\ appState = "polling" /\ pollPc = "sleep"
    /\ elapsed' = elapsed + intervalMs
    /\ pollPc' = "loop"
    /\ UNCHANGED <<platform, isPackaged, binaryFound, spawnable, appState, backendProc,
                   procs, mainWindow, activateHooked, startupLog>>
    /\ UNCHANGED uiVars

\* faulty variant of the handler: a poll that returned false ends the
\* application after the error box
AfterHealth_QuitsOnTimeout ==
    /\ appState = "polling" /\ pollPc \in {"ready", "timedOut"}
    /\ IF pollPc = "timedOut"
       THEN /\ startupLog' = Append(startupLog, "errorBox")
            /\ appState' = "quit"
            /\ UNCHANGED <<mainWindow, activateHooked, uiVars>>
       ELSE /\ startupLog' = Append(startupLog, "createWindow")
            /\ CreateWindow
            /\ activateHooked' = TRUE
            /\ appState' = "running"
    /\ pollPc' = "done"
    /\ elapsed' = 0
    /\ UNCHANGED <<platform, isPackaged, binaryFound, spawnable, backendProc, procs>>

\* faulty variant of the handler: it gives up when the poll returned false
AfterHealth_OnlyWhenReady ==
    /\ appState = "polling" /\ pollPc = "ready"
    /\ startupLog' = Append(startupLog, "createWindow")
    /\ CreateWindow
    /\ activateHooked' = TRUE
    /\ appState' = "running"
    /\ pollPc' = "done"
    /\ elapsed' = 0
    /\ UNCHANGED <<platform, isPackaged, binaryFound, spawnable, backendProc, procs>>

\* app.whenReady handler after its await (main.cjs:238-249); the clock of
\* waitForBackendHealth is gone with its call
AfterHealth ==
    /\ appState = "polling" /\ pollPc \in {"ready", "timedOut"}
    /\ startupLog' = IF pollPc = "timedOut"
                     THEN startupLog \o <<"errorBox", "createWindow">>
                     ELSE Append(startupLog, "createWindow")
    /\ CreateWindow
    /\ activateHooked' = TRUE
    /\ appState' = "running"
    /\ pollPc' = "done"
    /\ elapsed' = 0
    /\ UNCHANGED <<platform, isPackaged, binaryFound, spawnable, backendProc, procs>>

\* the backend starts to serve its port
BackendListens(p) ==
    /\ p \in LivePids
    /\ ~procs[p].listening
    /\ procs' = [procs EXCEPT ![p].listening = TRUE]
    /\ UNCHANGED <<platform, isPackaged, binaryFound, spawnable, appState, backendProc,
                   mainWindow, activateHooked, pollPc, elapsed, startupLog>>
    /\ UNCHANGED uiVars

\* the child that could not be launched emits "error" (and no "exit");
\* startBackend registers no listener for it (main.cjs:104-121, 146-158), so
\* the event is an uncaught exception of the main process, which Electron
\* reports in an error box and survives
BackendSpawnError(p) ==
    /\ appState # "quit"
    /\ p \in 1..Len(procs)
    /\ procs[p].state = "failed"
    /\ \A i \in 1..Len(startupLog) : startupLog[i] # "uncaughtException"
    /\ startupLog' = Append(startupLog, "uncaughtException")
    /\ UNCHANGED <<platform, isPackaged, binaryFound, spawnable, appState, backendProc,
                   procs, mainWindow, activateHooked, pollPc, elapsed>>
    /\ UNCHANGED uiVars

\* the child process ends, by itself or after a signal, and its "exit"
\* listener runs (main.cjs:118-121, 155-158)
BackendExit(p) ==
    /\ appState # "quit"
    /\ p \in LivePids
    /\ procs' = [procs EXCEPT ![p].state = "exited", ![p].listening = FALSE]
    /\ backendProc' = Null
    /\ UNCHANGED <<platform, isPackaged, binaryFound, spawnable, appState,
                   mainWindow, activateHooked, pollPc, elapsed, startupLog>>
    /\ UNCHANGED uiVars

\* the user closes the last window: the "closed" listener (main.cjs:228-230)
\* and the window-all-closed listener (main.cjs:256-259)
WindowAllClosed ==
    /\ appState = "running"
    /\ mainWindow = 1
    /\ mainWindow' = 0
    /\ StopBackend
    /\ appState' = IF platform # "darwin" THEN "quitting" ELSE appState
    /\ UNCHANGED <<platform, isPackaged, binaryFound, spawnable, activateHooked,
                   pollPc, elapsed, startupLog>>
    /\ UNCHANGED uiVars

\* the before-quit listener (main.cjs:252-254), after app.quit() of line 258
\* or when the user quits the application; the windows are closed and the
\* process ends
BeforeQuit ==
    /\ appState \in {"launching", "polling", "running", "quitting"}
    /\ StopBackend
    /\ mainWindow' = 0
    /\ appState' = "quit"
    /\ UNCHANGED <<platform, isPackaged, binaryFound, spawnable, activateHooked,
                   pollPc, elapsed, startupLog>>
    /\ UNCHANGED uiVars

\* the activate listener (main.cjs:247-249); macOS emits activate
Activate ==
    /\ appState = "running"
    /\ activateHooked
    /\ platform = "darwin"
    /\ IF mainWindow = 0 THEN CreateWindow ELSE UNCHANGED <<mainWindow, uiVars>>
    /\ UNCHANGED <<platform, isPackaged, binaryFound, spawnable, appState, backendProc,
                   procs, activateHooked, pollPc, elapsed, startupLog>>

-----------------------------------------------------------------------------
(* Specifications *)

\* the user reloads the page in its window
Reload ==
    /\ LoadPage
    /\ UNCHANGED supVars

\* the component after its first render on a first launch
InitUI(electron) ==
    \E m \in {Mount(EmptyStorage)} :
    /\ messages = m.messages
    /\ input = m.input
    /\ busy = m.busy
    /\ err = m.err
    /\ workspaceDirs = m.workspaceDirs
    /\ preferredFile = m.preferredFile
    /\ allowCloud = m.allowCloud
    /\ lastMeta = m.lastMeta
    /\ localStorage = m.localStorage
    /\ autoCleared = m.autoCleared
    /\ isElectron = electron
    /\ pending = <<>>
    /\ fileDlg = Null

\* the main process when it is started (main.cjs:14-26)
InitSup(plat, packaged, found, canRun) ==
    /\ platform = plat
    /\ isPackaged = packaged
    /\ binaryFound = found
    /\ spawnable = canRun
    /\ appState = "launching"
    /\ backendProc = Null
    /\ procs = <<>>
    /\ mainWindow = 0
    /\ activateHooked = FALSE
    /\ pollPc = "idle"
    /\ elapsed = 0
    /\ startupLog = <<>>

OptionOf(S) == {Null} \cup {Some(x) : x \in S}

\* the folder and the file offered by the pickers while chats are explored
ChatFolders == {PathA}
ChatFiles == {FileA}

\* the exchange with the backend, over a workspace of at most one folder
NextChat ==
    \/ \E text \in Inputs : SetInput(text)
    \/ OnSend
    \/ \E i \in 1..MaxMsgs : \E res \in Responses : OnSendSettled(i, res)
    \/ \E dir \in OptionOf(ChatFolders) : ChooseWorkspace(dir)
    \/ ChooseFileOpen
    \/ \E file \in OptionOf(ChatFiles) : \E ok \in BOOLEAN : ChooseFileResolved(file, ok)
    \/ \E dir \in ChatFolders : RemoveWorkspace(dir)
    \/ \E checked \in BOOLEAN : SetAllowCloud(checked)
    \/ ClearPermissions
    \/ ClearChat
    \/ Reload

\* the workspace, over every folder and file, with no message sent
NextWorkspace ==
    \/ \E dir \in OptionOf(Folders) : ChooseWorkspace(dir)
    \/ ChooseFileOpen
    \/ \E file \in OptionOf(Files) : \E ok \in BOOLEAN : ChooseFileResolved(file, ok)
    \/ \E dir \in Folders : RemoveWorkspace(dir)
    \/ \E checked \in BOOLEAN : SetAllowCloud(checked)
    \/ ClearPermissions
    \/ ClearChat
    \/ Reload

NextSup ==
    \/ WhenReady
    \/ PollLoop
    \/ \E d \in RequestDurations : \E twoXX \in BOOLEAN : PollAnswer(d, twoXX)
    \/ PollSleep
    \/ AfterHealth
    \/ \E p \in 1..Len(procs) : BackendListens(p)
    \/ \E p \in 1..Len(procs) : BackendExit(p)
    \/ \E p \in 1..Len(procs) : BackendSpawnError(p)
    \/ WindowAllClosed
    \/ BeforeQuit
    \/ Activate

\* the main process once the backend answered the health poll and the
\* window was created
SupRunning ==
    /\ platform = "linux"
    /\ isPackaged = FALSE
    /\ binaryFound = FALSE
    /\ spawnable = TRUE
    /\ appState = "running"
    /\ backendProc = Some(1)
    /\ procs = <<[state |-> "alive", via |-> "python", listening |-> TRUE, signals |-> 0]>>
    /\ mainWindow = 1
    /\ activateHooked = TRUE
    /\ pollPc = "done"
    /\ elapsed = 0
    /\ startupLog = <<"startBackend", "health:true", "createWindow">>

\* the controller on a first launch, in the desktop shell or in a browser;
\* the main process stays as it is after a successful start
InitController ==
    /\ \E electron \in BOOLEAN : InitUI(electron)
    /\ SupRunning

\* the main process on any platform and installation; the page is left aside
InitSupervisor ==
    /\ InitUI(TRUE)
    /\ \E plat \in Platforms : \E packaged \in BOOLEAN : \E found \in BOOLEAN :
       \E canRun \in BOOLEAN : InitSup(plat, packaged, found, canRun)

\* the controller's exchanges with the backend
SpecChat == InitController /\ [][NextChat]_vars

\* the same, where a chat call that is in flight settles in the end
FairSpecChat ==
    SpecChat /\ WF_vars(\E i \in 1..MaxMsgs : \E res \in Responses : OnSendSettled(i, res))

\* the folders and files offered by the pickers while the scope of the
\* requests is explored, and the answers of the backend
ScopeFolders == {PathA, PathB}
ScopeFiles == {FileA, FileB}
ScopeResponses == {ConnectionRefused, LocalAnswer}

\* sends in between the changes of the workspace
NextScope ==
    \/ \E text \in {InHi, InTailor} : SetInput(text)
    \/ OnSend
    \/ \E i \in 1..MaxMsgs : \E res \in ScopeResponses : OnSendSettled(i, res)
    \/ \E dir \in OptionOf(ScopeFolders) : ChooseWorkspace(dir)
    \/ ChooseFileOpen
    \/ \E file \in OptionOf(ScopeFiles) : \E ok \in BOOLEAN : ChooseFileResolved(file, ok)
    \/ \E dir \in ScopeFolders : RemoveWorkspace(dir)
    \/ ClearPermissions

\* the controller's requests over a changing workspace
SpecScope == InitController /\ [][NextScope]_vars

\* the controller's workspace and permissions
SpecWorkspace == InitController /\ [][NextWorkspace]_vars

\* the supervisor: the application's life cycle and the backend process
SpecSup == InitSupervisor /\ [][NextSup]_vars

\* the same, where the event loop of the main process runs what is due: the
\* loop of waitForBackendHealth goes on, every httpGet settles (a socket
\* that stays silent is destroyed after requestTimeoutMs, main.cjs:188), the
\* timer of the catch branch fires and the handler of whenReady resumes
\* after its await
FairSpecSup ==
    /\ SpecSup
    /\ WF_vars(PollLoop)
    /\ WF_vars(\E d \in RequestDurations : \E twoXX \in BOOLEAN : PollAnswer(d, twoXX))
    /\ WF_vars(PollSleep)
    /\ WF_vars(AfterHealth)

\* what the fetch of sendChat can settle with: the connection is refused
\* unless a live backend listens on the port (api.ts:19)
FetchOutcomes ==
    IF \E p \in LivePids : procs[p].listening THEN Responses ELSE {ConnectionRefused}

\* the user at the page of the window: typing, sending; and the fetch of a
\* send settling
UserTypes == mainWindow = 1 /\ SetInput(InHi)
UserSends == mainWindow = 1 /\ OnSend
FetchSettles ==
    /\ mainWindow = 1
    /\ \E i \in 1..MaxMsgs : \E res \in FetchOutcomes : OnSendSettled(i, res)

NextApp ==
    \/ WhenReady
    \/ PollLoop
    \/ \E d \in RequestDurations : \E twoXX \in BOOLEAN : PollAnswer(d, twoXX)
    \/ PollSleep
    \/ AfterHealth
    \/ \E p \in 1..Len(procs) : BackendListens(p)
    \/ \E p \in 1..Len(procs) : BackendExit(p)
    \/ \E p \in 1..Len(procs) : BackendSpawnError(p)
    \/ WindowAllClosed
    \/ BeforeQuit
    \/ Activate
    \/ UserTypes
    \/ UserSends
    \/ FetchSettles

\* the whole application: the main process and the chat of its page
SpecApp == InitSupervisor /\ [][NextApp]_vars

\* the same, with the event loop of the main process running what is due
FairSpecApp ==
    /\ SpecApp
    /\ WF_vars(PollLoop)
    /\ WF_vars(\E d \in RequestDurations : \E twoXX \in BOOLEAN : PollAnswer(d, twoXX))
    /\ WF_vars(PollSleep)
    /\ WF_vars(AfterHealth)

-----------------------------------------------------------------------------
(* Properties of the controller *)

\* C1 (single-flight send): a call of onSend made while busy is true, whatever
\* the input box holds, appends nothing to the log and issues no request; and
\* at no time is more than one chat request in flight.
C1_SingleFlight ==
    [][ /\ (busy /\ OnSend) => (messages' = messages /\ pending' = pending)
        /\ Len(pending') <= 1 ]_vars

\* a send is in flight and the input box holds a second sendable message
C1_Witness == busy /\ Len(pending) = 1 /\ Trim(input) # <<>>

\* C3 as stated (reconciliation): after every change of the folder set, a
\* preferred file that no folder of the new set prefixes has been cleared.
C3_ClearedUnlessPrefixed ==
    [][ workspaceDirs' # workspaceDirs =>
            \/ preferredFile' = Null
            \/ \E i \in 1..Len(workspaceDirs') :
                   StartsWith(preferredFile'[1], workspaceDirs'[i]) ]_vars

\* C3 as the code has it: after every change of the folder set that leaves
\* at least one folder, a preferred file that no folder of the new set
\* prefixes has been cleared.
C3_ClearedUnlessPrefixedOrEmpty ==
    [][ (workspaceDirs' # workspaceDirs /\ workspaceDirs' # <<>>) =>
            \/ preferredFile' = Null
            \/ \E i \in 1..Len(workspaceDirs') :
                   StartsWith(preferredFile'[1], workspaceDirs'[i]) ]_vars

\* the folder set has changed to /b alone and the effect has cleared the file
C3_Witness ==
    autoCleared = "folders" /\ workspaceDirs = <<PathB>> /\ preferredFile = Null

\* C4 (file-intent guard): an accepted send whose trimmed text contains one
\* of summarize, summary, rewrite, improve, tailor, bullet in any letter
\* case, made with no folder configured, appends the user message and the
\* guidance message, issues no request and leaves busy false.
C4_IntentWords == { <<"s","u","m","m","a","r","i","z","e">>, <<"s","u","m","m","a","r","y">>,
                    <<"r","e","w","r","i","t","e">>, <<"i","m","p","r","o","v","e">>,
                    <<"t","a","i","l","o","r">>, <<"b","u","l","l","e","t">> }

C4_Lowered(text) == [k \in 1..Len(text) |-> ToLower(text[k])]

C4_HasIntentWord(text) ==
    \E w \in C4_IntentWords : \E k \in 0..(Len(text) - Len(w)) :
        SubSeq(C4_Lowered(text), k + 1, k + Len(w)) = w

C4_FileIntentGuard ==
    [][ ( /\ OnSend
          /\ ~busy
          /\ Trim(input) # <<>>
          /\ C4_HasIntentWord(Trim(input))
          /\ workspaceDirs = <<>> )
        => /\ messages' = messages \o <<UserMsg(Trim(input)), AssistantMsg(GuidanceText)>>
           /\ pending' = pending
           /\ busy' = FALSE ]_vars

\* the guidance message closes the log after a user message with an intent word
C4_Witness ==
    /\ Len(messages) >= 3
    /\ messages[Len(messages)] = AssistantMsg(GuidanceText)
    /\ messages[Len(messages) - 1] = UserMsg(InTailor)
    /\ pending = <<>> /\ ~busy

\* what the claims call a successful answer: 2xx, a JSON object, final_text in it
C5_IsAnswer(res) ==
    /\ ~res.rejected
    /\ res.status \in 200..299
    /\ res.json = "object"
    /\ "final_text" \in res.keys

\* C5 (successful exchange): when the chat call settles with a 2xx JSON
\* object that has final_text, exactly one assistant message with that text
\* is appended and the metadata snapshot becomes the answer's route,
\* used_cloud, sensitive_detected and sanitized_cloud_query; and every
\* request issued carries the trimmed text, the cloud-allow flag, the folder
\* list and the preferred file as a one-element list (empty if none).
C5_SuccessfulExchange ==
    [][ /\ \A i \in 1..Len(pending) : \A res \in Responses :
              (C5_IsAnswer(res) /\ OnSendSettled(i, res)) =>
                  /\ messages' = Append(messages,
                         [role |-> "assistant", text |-> res.obj.final_text])
                  /\ lastMeta' = <<[route |-> res.obj.route,
                                    used_cloud |-> res.obj.used_cloud,
                                    sensitive_detected |-> res.obj.sensitive_detected,
                                    sanitized_cloud_query |-> res.obj.sanitized_cloud_query]>>
        /\ Len(pending') > Len(pending) =>
              pending' = Append(pending,
                  [user_text       |-> Trim(input),
                   allow_cloud     |-> allowCloud,
                   workspace_dirs  |-> workspaceDirs,
                   preferred_files |-> IF preferredFile = Null THEN <<>>
                                       ELSE <<preferredFile[1]>>]) ]_vars

\* a request that named the preferred file was answered by the cloud route
C5_Witness ==
    /\ Len(messages) >= 3
    /\ messages[Len(messages)] = AssistantMsg(CloudAnswer.obj.final_text)
    /\ messages[Len(messages) - 1].role = "user"
    /\ lastMeta = Some(MetaOf(CloudAnswer.obj))
    /\ preferredFile = Some(FileA)
    /\ pending = <<>>

\* the message of the Error, as C6 gives it
C6_ErrorText(res) ==
    IF res.rejected THEN res.text
    ELSE IF res.status \notin 200..299
         THEN "Backend error " \o ToString(res.status) \o ": " \o res.text
    ELSE "Invalid response from backend"

\* C6 (failure path): when the chat call fails (transport error, non-2xx
\* status, a body that is no object, no final_text) exactly one fallback
\* message is appended, the error slot holds the error's message ("Backend
\* error <status>: <body>" for a non-2xx answer, "Invalid response from
\* backend" for a body without final_text), and the metadata snapshot and
\* the session state stay as they are.
C6_FailurePath ==
    [][ \A i \in 1..Len(pending) : \A res \in Responses :
            (~C5_IsAnswer(res) /\ OnSendSettled(i, res)) =>
                /\ messages' = Append(messages, AssistantMsg(FallbackText))
                /\ err' # Null
                /\ res.json # "syntax" \/ res.rejected \/ res.status \notin 200..299
                       => err' = <<C6_ErrorText(res)>>
                /\ UNCHANGED <<lastMeta, workspaceDirs, preferredFile, allowCloud,
                               localStorage>> ]_vars

\* an answer 500 "boom" after a successful exchange: the fallback closes the
\* log and the snapshot of the earlier answer is still there
C6_Witness ==
    /\ Len(messages) >= 5
    /\ messages[Len(messages)] = AssistantMsg(FallbackText)
    /\ err = Some("Backend error 500: boom")
    /\ lastMeta = Some(MetaOf(LocalAnswer.obj))
    /\ ~busy

\* C7 (busy flag release): whenever busy is true it is false again later,
\* given that the chat call settles, with an answer or with a failure.
C7_BusyReleased == busy ~> ~busy

\* a send has failed on the transport and busy is false again
C7_Witness ==
    /\ ~busy
    /\ pending = <<>>
    /\ err = Some(ConnectionRefused.text)
    /\ messages[Len(messages)] = AssistantMsg(FallbackText)
    /\ messages[Len(messages) - 1] = UserMsg(<<"h","i">>)

\* C8 (redundant folder mutations): adding a folder that is in the list and
\* removing one that is not leave the list as it is; removing a folder that
\* is in the list takes out that path alone and keeps the order of the rest.
C8_RedundantFolderMutations ==
    [][ \A d \in Folders :
          LET present == \E k \in 1..Len(workspaceDirs) : workspaceDirs[k] = d IN
          /\ (ChooseWorkspace(<<d>>) /\ present) => workspaceDirs' = workspaceDirs
          /\ (RemoveWorkspace(d) /\ ~present) => workspaceDirs' = workspaceDirs
          /\ (RemoveWorkspace(d) /\ present) =>
                \E k \in 1..Len(workspaceDirs) :
                    /\ workspaceDirs[k] = d
                    /\ workspaceDirs' = SubSeq(workspaceDirs, 1, k - 1)
                                        \o SubSeq(workspaceDirs, k + 1, Len(workspaceDirs))
                    /\ \A j \in 1..Len(workspaceDirs') : workspaceDirs'[j] # d ]_vars

\* a file dialog opened over /a, /ab, /b is still open and /ab has gone
C8_Witness ==
    /\ fileDlg = Some(<<PathA, PathAB, PathB>>)
    /\ workspaceDirs = <<PathA, PathB>>

\* C9 (clear chat): the log becomes one greeting message of the assistant,
\* the error slot and the metadata snapshot become empty, and the folders,
\* the preferred file, the cloud-allow flag, their stored copies and busy
\* stay as they are.
C9_ClearChatFrame ==
    [][ ClearChat =>
            /\ Len(messages') = 1
            /\ messages'[1] = [role |-> "assistant", text |-> ChatClearedText]
            /\ err' = Null
            /\ lastMeta' = Null
            /\ UNCHANGED <<workspaceDirs, preferredFile, allowCloud, localStorage,
                           busy>> ]_vars

\* the chat was cleared while a send was in flight and a file was preferred
C9_Witness ==
    /\ messages = <<AssistantMsg(ChatClearedText)>>
    /\ busy /\ pending # <<>>
    /\ preferredFile # Null /\ allowCloud
    /\ lastMeta = Null /\ err = Null

\* C10 (clear permissions): in one step the folder list becomes empty, the
\* preferred file none, the cloud-allow flag false and the metadata snapshot
\* empty, and one assistant message is appended to the log as it was.
C10_ClearPermissions ==
    [][ ClearPermissions =>
            /\ workspaceDirs' = <<>>
            /\ preferredFile' = Null
            /\ allowCloud' = FALSE
            /\ lastMeta' = Null
            /\ messages' = Append(messages,
                   [role |-> "assistant", text |-> PermissionsClearedText]) ]_vars

\* permissions were cleared after an answer: the notice closes the log
C10_Witness ==
    /\ Len(messages) >= 4
    /\ messages[Len(messages)] = AssistantMsg(PermissionsClearedText)
    /\ messages[Len(messages) - 1] = AssistantMsg(LocalAnswer.obj.final_text)
    /\ messages[Len(messages) - 2].role = "user"
    /\ workspaceDirs = <<>> /\ preferredFile = Null /\ ~allowCloud /\ lastMeta = Null

\* the folder that holds a file, as C11 means it: what stands before the
\* last slash, empty when there is none
C11_Folder(file) ==
    LET slashes == {k \in 1..Len(file) : file[k] = "/"} IN
    IF slashes = {} THEN <<>>
    ELSE SubSeq(file, 1, (CHOOSE k \in slashes : \A j \in slashes : j <= k) - 1)

C11_Outside(folder, dirs) ==
    /\ folder # <<>>
    /\ \A k \in 1..Len(dirs) :
           Len(dirs[k]) > Len(folder) \/ SubSeq(folder, 1, Len(dirs[k])) # dirs[k]

\* C11 as stated (pick file with confirmation): when the file dialog gives a
\* file whose folder no folder of the current list prefixes and the user
\* confirms, the folder becomes the sole folder if the list was empty and is
\* appended otherwise, and the chosen file is the preferred file afterwards.
C11_PickWithConfirmation ==
    [][ \A file \in Files :
          ( /\ ChooseFileResolved(<<file>>, TRUE)
            /\ C11_Outside(C11_Folder(file), workspaceDirs) )
          => /\ workspaceDirs' = IF workspaceDirs = <<>> THEN <<C11_Folder(file)>>
                                 ELSE Append(workspaceDirs, C11_Folder(file))
             /\ preferredFile' = <<file>> ]_vars

\* the same, for a dialog during which the folder list did not change
C11_PickWithConfirmation_SameList ==
    [][ \A file \in Files :
          ( /\ ChooseFileResolved(<<file>>, TRUE)
            /\ fileDlg = <<workspaceDirs>>
            /\ C11_Outside(C11_Folder(file), workspaceDirs) )
          => /\ workspaceDirs' = IF workspaceDirs = <<>> THEN <<C11_Folder(file)>>
                                 ELSE Append(workspaceDirs, C11_Folder(file))
             /\ preferredFile' = <<file>> ]_vars

\* C17 (write-through persistence): after every handler and its effects the
\* three stored items are the JSON texts of the folder list, the preferred
\* file and the cloud-allow flag, and reading them back gives these values;
\* a page loaded on that storage has the same session state, the greeting
\* alone in its log, and no error and no metadata snapshot.
C17_WriteThrough ==
    /\ [](/\ localStorage[LS.workspaceDirs] = <<StringifyList(workspaceDirs)>>
          /\ localStorage[LS.preferredFile] = <<StringifyNullable(preferredFile)>>
          /\ localStorage[LS.allowCloud] = <<StringifyBool(allowCloud)>>
          /\ LoadWorkspaceDirs(localStorage) = workspaceDirs
          /\ LoadPreferredFile(localStorage) = preferredFile
          /\ LoadAllowCloud(localStorage) = allowCloud)
    /\ [][ Reload =>
              /\ workspaceDirs' = workspaceDirs
              /\ preferredFile' = preferredFile
              /\ allowCloud' = allowCloud
              /\ localStorage' = localStorage
              /\ messages' = <<[role |-> "assistant", text |-> GreetingText]>>
              /\ err' = Null
              /\ lastMeta' = Null ]_vars

\* two folders, a preferred file and the cloud allowed, as they are stored
C17_Witness ==
    /\ workspaceDirs = <<PathA, PathB>>
    /\ preferredFile = <<FileB>>
    /\ allowCloud
    /\ localStorage[LS.workspaceDirs] =
           << <<"[", "\"", "/", "a", "\"", ",", "\"", "/", "b", "\"", "]">> >>
    /\ localStorage[LS.preferredFile] = << <<"\"", "/", "b", "/", "d", "\"">> >>
    /\ localStorage[LS.allowCloud] = << <<"t", "r", "u", "e">> >>
    /\ messages = <<AssistantMsg(GreetingText)>>

-----------------------------------------------------------------------------
(* Properties of the supervisor *)

\* C2 as stated: from app-ready to app-quit exactly one backend process is alive.
C2_ExactlyOneBackend ==
    appState \in {"polling", "running"} => Cardinality(LivePids) = 1

\* C12 (health poll termination): waitForBackendHealth returns true at the
\* first 2xx answer, tries again after a failed attempt, returns false only
\* once timeoutMs have passed with no 2xx answer, and a poll that has begun
\* always comes to return (or the application has quit meanwhile).
C12_HealthPollTerminates ==
    /\ [][ /\ \A d \in RequestDurations :
                /\ PollAnswer(d, TRUE) => pollPc' = "ready"
                /\ PollAnswer(d, FALSE) => pollPc' = "sleep"
           /\ (pollPc' = "timedOut" /\ pollPc # "timedOut") =>
                (elapsed >= timeoutMs /\ pollPc = "loop")
           /\ (pollPc' = "ready" /\ pollPc # "ready") => pollPc = "request" ]_vars
    /\ (appState = "polling" /\ pollPc \in {"loop", "request", "sleep"})
           ~> (pollPc \in {"ready", "timedOut"} \/ appState = "quit")

\* the poll has returned false: every attempt failed until the time was up
C12_Witness ==
    /\ appState = "polling"
    /\ pollPc = "timedOut"
    /\ elapsed >= timeoutMs
    /\ startupLog = <<"startBackend", "health:false">>

\* the first place of an entry in the startup log, 0 when it is not there
PlaceOf(entry) ==
    IF \E i \in 1..Len(startupLog) : startupLog[i] = entry
    THEN CHOOSE i \in 1..Len(startupLog) :
             startupLog[i] = entry /\ \A j \in 1..(i - 1) : startupLog[j] # entry
    ELSE 0

\* C13 (startup ordering): the window is first created by the whenReady
\* handler after the poll has returned, with either result; the error box
\* is shown if and only if the poll returned false, and before the window
\* is created; and every startup comes to create the window (or the
\* application has quit meanwhile).
C13_StartupOrdering ==
    /\ [](PlaceOf("createWindow") > 0 =>
            /\ (PlaceOf("health:true") > 0) # (PlaceOf("health:false") > 0)
            /\ PlaceOf("health:true") < PlaceOf("createWindow")
            /\ PlaceOf("health:false") < PlaceOf("createWindow")
            /\ (PlaceOf("errorBox") > 0) = (PlaceOf("health:false") > 0)
            /\ PlaceOf("health:false") <= PlaceOf("errorBox")
            /\ PlaceOf("errorBox") < PlaceOf("createWindow"))
    /\ [](PlaceOf("errorBox") > 0 => PlaceOf("health:false") > 0)
    /\ [][ (mainWindow = 0 /\ mainWindow' = 1) =>
              /\ pollPc \in {"ready", "timedOut", "done"}
              /\ PlaceOf("createWindow")' > 0 ]_vars
    /\ (appState = "polling") ~> (PlaceOf("createWindow") > 0 \/ appState = "quit")

\* a startup whose poll timed out: error box, then the window
C13_Witness ==
    /\ startupLog = <<"startBackend", "health:false", "errorBox", "createWindow">>
    /\ mainWindow = 1
    /\ appState = "running"

\* C14 (teardown on exit): when the last window is closed or the
\* application quits while the handle holds a process, the handle is
\* cleared and, if that process is alive, one termination signal is sent to
\* it; and once the application has quit the handle is empty and every
\* process still alive has been signalled.
C14_TeardownOnExit ==
    /\ [][ ((WindowAllClosed \/ BeforeQuit) /\ backendProc # Null) =>
              /\ backendProc' = Null
              /\ backendProc[1] \in LivePids =>
                    /\ procs'[backendProc[1]].signals = procs[backendProc[1]].signals + 1
                    /\ procs'[backendProc[1]].state = "alive" ]_vars
    /\ [](appState = "quit" =>
              /\ backendProc = Null
              /\ \A p \in LivePids : procs[p].signals >= 1)

\* the application has quit with the backend still alive: it was signalled
\* once and the handle is empty
C14_Witness ==
    /\ appState = "quit"
    /\ backendProc = Null
    /\ Len(procs) = 1
    /\ procs[1].state = "alive" /\ procs[1].signals = 1

\* C15 (stop is idempotent): stopBackend called with an empty handle, from
\* either listener, sends nothing and leaves the handle and the processes
\* as they are; and no process is ever sent more than one termination
\* signal, whatever the order of window-all-closed and before-quit.
C15_StopIdempotent ==
    /\ [][ ((WindowAllClosed \/ BeforeQuit) /\ backendProc = Null) =>
              (backendProc' = Null /\ procs' = procs) ]_vars
    /\ [](\A p \in 1..Len(procs) : procs[p].signals <= 1)

\* between window-all-closed and before-quit: the backend was signalled by
\* the first and the handle is empty for the second
C15_Witness ==
    /\ appState = "quitting"
    /\ backendProc = Null
    /\ Len(procs) = 1
    /\ procs[1].state = "alive" /\ procs[1].signals = 1

\* C16 (launch failures and health timeouts are non-fatal): once the spawn
\* has failed or the poll has timed out, the application changes its state
\* only by finishing its startup or by the user closing the window or
\* quitting; the window comes to be created (unless the user quits first);
\* and a send whose fetch settles while no backend listens ends in the
\* fallback message and the error slot, with the application as it was.
C16_FailuresNonFatal ==
    /\ [][ ( /\ \/ \E p \in 1..Len(procs) : procs[p].state = "failed"
                \/ PlaceOf("health:false") > 0
             /\ appState' # appState )
           => \/ appState = "polling" /\ appState' = "running" /\ mainWindow' = 1
              \/ WindowAllClosed
              \/ BeforeQuit ]_vars
    /\ [][ ( /\ \E i \in 1..Len(pending) : \E res \in Responses : OnSendSettled(i, res)
             /\ ~\E p \in 1..Len(procs) : procs[p].state = "alive" /\ procs[p].listening )
           => /\ messages' = Append(messages, [role |-> "assistant", text |-> FallbackText])
              /\ err' # Null
              /\ ~busy'
              /\ appState' = appState /\ mainWindow' = mainWindow ]_vars
    /\ ((\E p \in 1..Len(procs) : procs[p].state = "failed") \/ pollPc = "timedOut")
           ~> (PlaceOf("createWindow") > 0 \/ appState = "quit")

\* the spawn failed, the window is there all the same, and a send has ended
\* in the fallback message
C16_Witness ==
    /\ Len(procs) = 1 /\ procs[1].state = "failed"
    /\ PlaceOf("uncaughtException") > 0
    /\ PlaceOf("errorBox") > 0
    /\ appState = "running" /\ mainWindow = 1
    /\ Len(messages) = 3
    /\ messages[3] = AssistantMsg(FallbackText)
    /\ err = Some(ConnectionRefused.text)
    /\ ~busy

\* C18 (at most one backend process): at no time are two spawned processes
\* alive, over every order of app-ready, stop, process exit, quit,
\* window-all-closed and activate; and a process is spawned only while the
\* handle is empty and no process is alive, so that the handle, when set,
\* names the one process there is.
C18_AtMostOneBackend ==
    /\ [](/\ Cardinality({p \in 1..Len(procs) : procs[p].state = "alive"}) <= 1
          /\ backendProc # Null => backendProc[1] = Len(procs))
    /\ [][ Len(procs') > Len(procs) =>
              /\ backendProc = Null
              /\ \A p \in 1..Len(procs) : procs[p].state # "alive"
              /\ Len(procs') = Len(procs) + 1 ]_vars

\* macOS: the window was closed, which stopped the backend, and the
\* application re-activated: the one process, signalled and not yet gone,
\* is all there is
C18_Witness ==
    /\ platform = "darwin"
    /\ appState = "running" /\ mainWindow = 1
    /\ backendProc = Null
    /\ Len(procs) = 1
    /\ procs[1].state = "alive" /\ procs[1].signals = 1 /\ procs[1].via = "binary"

\* C19 (process exit clears the handle): once a backend process has ended by
\* itself -- it exited, or it could not be launched and its failure has been
\* delivered -- the handle does not name it any more, and no step sends a
\* signal to a process that is not alive.
C19_ExitClearsHandle ==
    /\ [](\A p \in 1..Len(procs) :
              (\/ procs[p].state = "exited"
               \/ procs[p].state = "failed" /\ PlaceOf("uncaughtException") > 0)
              => backendProc # Some(p))
    /\ [][ \A p \in 1..Len(procs) :
              procs[p].state # "alive" => procs'[p].signals = procs[p].signals ]_vars

\* the part of C19 about processes that did run: the exit listener empties
\* the handle in the step in which the process ends
C19_ExitClearsHandle_Launched ==
    /\ [](\A p \in 1..Len(procs) : procs[p].state = "exited" => backendProc # Some(p))
    /\ [][ \A p \in 1..Len(procs) :
              procs[p].state \notin {"alive", "failed"} =>
                  procs'[p].signals = procs[p].signals ]_vars

\* the number of user messages of a log
C20_UserCount(log) == Cardinality({k \in 1..Len(log) : log[k].role = "user"})

\* the texts an exchange can end with
C20_ReplyTexts ==
    {FallbackText} \cup {res.obj.final_text : res \in {r \in Responses : C5_IsAnswer(r)}}

\* C20 (no retries, one reply per send): a step adds a user message only for
\* an accepted send, and then exactly one, either followed by the guidance
\* with no request or with exactly one request issued; requests are issued in
\* no other step; a request leaves flight only by settling, which appends
\* exactly one reply (the backend's text or the fallback), or with the page;
\* and a reply is appended only by retiring the request it answers, so that no
\* request is answered twice or issued again.
C20_OneReplyPerSend ==
    [][ /\ C20_UserCount(messages') > C20_UserCount(messages) =>
              /\ Trim(input) # <<>> /\ ~busy
              /\ \/ /\ messages' = Append(messages, UserMsg(Trim(input)))
                    /\ Len(pending') = Len(pending) + 1
                 \/ /\ messages' = messages \o <<UserMsg(Trim(input)),
                                                AssistantMsg(GuidanceText)>>
                    /\ pending' = pending
        /\ Len(pending') > Len(pending) =>
              /\ C20_UserCount(messages') = C20_UserCount(messages) + 1
              /\ Len(pending') = Len(pending) + 1
        /\ Len(pending') < Len(pending) =>
              \/ Reload
              \/ /\ Len(pending') = Len(pending) - 1
                 /\ \E t \in C20_ReplyTexts : messages' = Append(messages, AssistantMsg(t))
        /\ (\E t \in C20_ReplyTexts : messages' = Append(messages, AssistantMsg(t))) =>
              Len(pending') = Len(pending) - 1 ]_vars

\* a failed exchange, then a new send and its answer: five messages, no
\* request in flight
C20_Witness ==
    /\ Len(messages) = 5
    /\ messages[2].role = "user"
    /\ messages[3] = AssistantMsg(FallbackText)
    /\ messages[4].role = "user"
    /\ messages[5] = AssistantMsg(LocalAnswer.obj.final_text)
    /\ pending = <<>>
    /\ ~busy

\* the place of a path in a list without duplicates, 0 when absent
C21_Place(list, x) ==
    IF \E i \in 1..Len(list) : list[i] = x
    THEN CHOOSE i \in 1..Len(list) : list[i] = x
    ELSE 0

\* the first n paths of after are paths of before, in the order of before
C21_KeepsOrder(before, after, n) ==
    /\ \A i \in 1..n : C21_Place(before, after[i]) > 0
    /\ \A i, j \in 1..n :
          i < j => C21_Place(before, after[i]) < C21_Place(before, after[j])

\* C21 (folder-set uniqueness and order): the folder list never holds a path
\* twice, and every step keeps the paths that survive it in the order they
\* had and puts at most one path, which was not in the list, behind them; so
\* the list is always in the order in which its paths were added.
C21_FolderSetOrder ==
    /\ [](\A i, j \in 1..Len(workspaceDirs) :
              workspaceDirs[i] = workspaceDirs[j] => i = j)
    /\ [][ \/ C21_KeepsOrder(workspaceDirs, workspaceDirs', Len(workspaceDirs'))
           \/ /\ Len(workspaceDirs') >= 1
              /\ C21_KeepsOrder(workspaceDirs, workspaceDirs', Len(workspaceDirs') - 1)
              /\ C21_Place(workspaceDirs, workspaceDirs'[Len(workspaceDirs')]) = 0 ]_vars

\* /b was added first, then /ab through a picked file or the folder picker,
\* then /a
C21_Witness ==
    /\ workspaceDirs = <<PathB, PathAB, PathA>>
    /\ preferredFile = Some(FileB)

\* the preferred file of a request lies under one of the request's folders
C22_Scoped(req) ==
    \E k \in 1..Len(req.workspace_dirs) :
        /\ Len(req.workspace_dirs[k]) <= Len(req.preferred_files[1])
        /\ \A n \in 1..Len(req.workspace_dirs[k]) :
              req.preferred_files[1][n] = req.workspace_dirs[k][n]

====
